---- MODULE Spec2Model ----
(***************************************************************************)
(* A model of scripts/hooks/generate-manifests.py: the ignore-pattern      *)
(* matcher, the blacklist test, the per-directory manifest builder and     *)
(* the tree walker of main().                                              *)
(*                                                                         *)
(* Strings are sequences of one-character strings, so that the string      *)
(* operations of the script (fnmatch, strip, replace, stem, suffix, lower, *)
(* lexicographic comparison) are computed character by character.          *)
(***************************************************************************)
EXTENDS Integers, Sequences, FiniteSets, TLC

(***************************************************************************)
(* Characters and Python's str operations                                  *)
(***************************************************************************)

\* The characters the model's inputs are written with, in code point order.
AsciiOrder ==
    << " ", "#", "*", "-", ".", "/", "?", "A", "B", "G", "J", "P", "_",
       "a", "b", "c", "d", "e", "f", "g", "h", "i", "j", "k", "l", "m",
       "n", "o", "p", "q", "r", "s", "t", "u", "v", "w", "x", "y", "z" >>

Ord(c) == CHOOSE i \in 1..Len(AsciiOrder) : AsciiOrder[i] = c

\* str.lower() on one character.
LowerChar(c) ==
    CASE c = "A" -> "a"
      [] c = "B" -> "b"
      [] c = "G" -> "g"
      [] c = "J" -> "j"
      [] c = "P" -> "p"
      [] OTHER -> c

\* str.lower()
Lower(s) == [i \in 1..Len(s) |-> LowerChar(s[i])]

\* s < t for str: lexicographic by code point, a proper prefix first.
RECURSIVE StrLess(_, _)
StrLess(s, t) ==
    IF t = << >> THEN FALSE
    ELSE IF s = << >> THEN TRUE
    ELSE IF s[1] /= t[1] THEN Ord(s[1]) < Ord(t[1])
    ELSE StrLess(Tail(s), Tail(t))

\* s.startswith(p)
StartsWith(s, p) == Len(p) <= Len(s) /\ SubSeq(s, 1, Len(p)) = p

\* p in s (substring test)
Contains(s, p) ==
    \E i \in 1..(Len(s) - Len(p) + 1) : SubSeq(s, i, i + Len(p) - 1) = p

\* s.replace(old, ""): every non-overlapping occurrence, left to right.
RECURSIVE Remove(_, _)
Remove(s, old) ==
    IF s = << >> THEN << >>
    ELSE IF StartsWith(s, old) THEN Remove(SubSeq(s, Len(old) + 1, Len(s)), old)
    ELSE << s[1] >> \o Remove(Tail(s), old)

\* s.rstrip(c) for a one-character set
RECURSIVE RStrip(_, _)
RStrip(s, c) ==
    IF s /= << >> /\ s[Len(s)] = c THEN RStrip(SubSeq(s, 1, Len(s) - 1), c) ELSE s

RECURSIVE LStrip(_, _)
LStrip(s, c) ==
    IF s /= << >> /\ s[1] = c THEN LStrip(Tail(s), c) ELSE s

\* s.strip(): the only whitespace the inputs hold is the space.
Strip(s) == RStrip(LStrip(s, " "), " ")

\* s.rfind(c): the last index of c, 0 when there is none (Python's -1).
RFind(s, c) ==
    IF \E i \in 1..Len(s) : s[i] = c
    THEN CHOOSE i \in 1..Len(s) : s[i] = c /\ \A j \in (i + 1)..Len(s) : s[j] /= c
    ELSE 0

\* PurePath(s).name: the last component of the path.
PathName(s) == SubSeq(s, RFind(s, "/") + 1, Len(s))

\* PurePath.suffix: from the last dot of the name, unless that dot is the
\* first or the last character of the name.
Suffix(s) ==
    LET name == PathName(s)
        i == RFind(name, ".")
    IN IF 1 < i /\ i < Len(name) THEN SubSeq(name, i, Len(name)) ELSE << >>

\* PurePath.stem: the name without its suffix.
Stem(s) ==
    LET name == PathName(s)
        i == RFind(name, ".")
    IN IF 1 < i /\ i < Len(name) THEN SubSeq(name, 1, i - 1) ELSE name

\* fnmatch.fnmatch(name, pat) on POSIX (normcase is the identity): * matches
\* any run of characters, "/" included, ? any one character, anything else
\* itself. The patterns of the model hold no bracket expression.
RECURSIVE FnMatchFrom(_, _, _, _)
FnMatchFrom(s, i, p, j) ==
    IF j > Len(p) THEN i > Len(s)
    ELSE IF p[j] = "*"
         THEN FnMatchFrom(s, i, p, j + 1)
              \/ (i <= Len(s) /\ FnMatchFrom(s, i + 1, p, j))
    ELSE IF p[j] = "?" THEN i <= Len(s) /\ FnMatchFrom(s, i + 1, p, j + 1)
    ELSE i <= Len(s) /\ s[i] = p[j] /\ FnMatchFrom(s, i + 1, p, j + 1)

fnmatch(s, p) == FnMatchFrom(s, 1, p, 1)

(***************************************************************************)
(* Names the script spells out                                             *)
(***************************************************************************)

THUMB == << "_", "t", "h", "u", "m", "b" >>

DOT_GIT == << ".", "g", "i", "t" >>

SPECIES_IMAGES ==
    << "s", "p", "e", "c", "i", "e", "s", "-", "i", "m", "a", "g", "e", "s" >>

MANIFEST_JSON ==
    << "m", "a", "n", "i", "f", "e", "s", "t", ".", "j", "s", "o", "n" >>

BLACKLIST_JSON ==
    << "b", "l", "a", "c", "k", "l", "i", "s", "t", ".", "j", "s", "o", "n" >>

METADATA_JSON ==
    << "m", "e", "t", "a", "d", "a", "t", "a", ".", "j", "s", "o", "n" >>

\* The suffixes generate_manifest takes for an image.
ImageSuffixes ==
    { << ".", "j", "p", "g" >>, << ".", "j", "p", "e", "g" >>,
      << ".", "p", "n", "g" >>, << ".", "g", "i", "f" >>,
      << ".", "w", "e", "b", "p" >> }

\* What dict.get falls back to: {} for an attribution, "" for a string.
EmptyObject == "{}"

\* Python's None, and a value that is not None, as a list of at most one.
None == << >>

Some(v) == << v >>

(***************************************************************************)
(* should_ignore                                                           *)
(***************************************************************************)

\* should_ignore(path, ignore_patterns), path given as str(path) and
\* path.name. The loop returns True at the first pattern that matches.
should_ignore(path_str, name, ignore_patterns) ==
    \E k \in 1..Len(ignore_patterns) :
        LET line == ignore_patterns[k]
            pattern == Strip(line)
            clean_pattern == RStrip(pattern, "/")
        IN /\ ~(line = << >> \/ StartsWith(pattern, << "#" >>))
           /\ pattern /= << >>
           /\ \/ fnmatch(path_str, pattern)
              \/ fnmatch(name, clean_pattern)
              \/ fnmatch(path_str, << "*", "/" >> \o clean_pattern)
              \/ fnmatch(path_str, << "*", "/" >> \o clean_pattern \o << "/", "*" >>)

(***************************************************************************)
(* is_blacklisted                                                          *)
(***************************************************************************)

\* The base name is_blacklisted compares: the stem, of the name without
\* every "_thumb" when the name holds one.
BaseName(filename) ==
    IF Contains(filename, THUMB) THEN Stem(Remove(filename, THUMB))
    ELSE Stem(filename)

\* is_blacklisted(filename, blacklist)
is_blacklisted(filename, blacklist) ==
    \/ \E k \in 1..Len(blacklist) : blacklist[k] = filename
    \/ \E k \in 1..Len(blacklist) : BaseName(filename) = Stem(blacklist[k])

(***************************************************************************)
(* The files a directory holds                                             *)
(*                                                                         *)
(* A JSON file is [st, val]: st is "missing", "oserror" (open fails),      *)
(* "badutf8" (the bytes are no UTF-8 text), "badjson" (text that is no     *)
(* JSON) or "json" (val is the value parsed).                              *)
(* A parsed value is [t, n, elems, hasDefault, defaultImage, hasImages,    *)
(* images]: t is "dict" (an object, with or without the keys defaultImage  *)
(* and images), "list" (of the strings elems), "int" (the number n) or     *)
(* "null".                                                                 *)
(***************************************************************************)

JsonValue(t, n, elems, hasDefault, defaultImage, hasImages, images) ==
    [t |-> t, n |-> n, elems |-> elems, hasDefault |-> hasDefault,
     defaultImage |-> defaultImage, hasImages |-> hasImages, images |-> images]

\* {}
EmptyDict == JsonValue("dict", 0, << >>, FALSE, << >>, FALSE, << >>)

JsonList(elems) == JsonValue("list", 0, elems, FALSE, << >>, FALSE, << >>)

JsonInt(n) == JsonValue("int", n, << >>, FALSE, << >>, FALSE, << >>)

JsonNull == JsonValue("null", 0, << >>, FALSE, << >>, FALSE, << >>)

Absent == [st |-> "missing", val |-> JsonNull]

Broken(st) == [st |-> st, val |-> JsonNull]

Parsed(val) == [st |-> "json", val |-> val]

\* What a call gives: a value, or an exception that leaves the function.
Returns(v) == [raised |-> FALSE, value |-> v]

Raises(v) == [raised |-> TRUE, value |-> v]

\* load_blacklist(dir_path): only JSONDecodeError and OSError are caught; the
\* UnicodeDecodeError of a file that is no UTF-8 text is neither.
load_blacklist(file) ==
    IF file.st = "missing" THEN Returns(<< >>)
    ELSE IF file.st \in {"oserror", "badjson"} THEN Returns(<< >>)
    ELSE IF file.st = "badutf8" THEN Raises(<< >>)
    ELSE IF file.val.t = "list" THEN Returns(file.val.elems)
    ELSE Returns(<< >>)

\* load_metadata(dir_path): whatever json.load gives is returned as it is.
load_metadata(file) ==
    IF file.st = "missing" THEN Returns(EmptyDict)
    ELSE IF file.st \in {"oserror", "badjson"} THEN Returns(EmptyDict)
    ELSE IF file.st = "badutf8" THEN Raises(EmptyDict)
    ELSE Returns(file.val)

\* bool(v) of a parsed value
Truthy(v) ==
    CASE v.t = "dict" -> v.hasDefault \/ v.hasImages
      [] v.t = "list" -> v.elems /= << >>
      [] v.t = "int" -> v.n /= 0
      [] OTHER -> FALSE

\* key in v: a TypeError for a number or null.
HasKey(v, key) ==
    CASE v.t = "dict" ->
            Returns(IF key = "defaultImage" THEN v.hasDefault
                    ELSE IF key = "images" THEN v.hasImages ELSE FALSE)
      [] v.t = "list" -> Returns(\E k \in 1..Len(v.elems) : v.elems[k] = key)
      [] OTHER -> Raises(FALSE)

(***************************************************************************)
(* get_image_attribution                                                   *)
(***************************************************************************)

\* A record of metadata["images"]; a key a record may lack carries a flag.
ImageInfo(originalFile, hasAttribution, attribution, hasSource, source, isDefaultImage, hasThumbnailFile, thumbnailFile) ==
    [originalFile |-> originalFile, hasAttribution |-> hasAttribution,
     attribution |-> attribution, hasSource |-> hasSource, source |-> source,
     isDefaultImage |-> isDefaultImage, hasThumbnailFile |-> hasThumbnailFile,
     thumbnailFile |-> thumbnailFile]

\* The dict get_image_attribution returns: {} (found is FALSE) or the four
\* keys, each with the record's value or the default of image_info.get.
NoAttribution ==
    [found |-> FALSE, attribution |-> EmptyObject, source |-> "",
     isDefaultImage |-> FALSE, thumbnailFile |-> << >>]

AttributionOf(image_info) ==
    [found |-> TRUE,
     attribution |-> IF image_info.hasAttribution THEN image_info.attribution
                     ELSE EmptyObject,
     source |-> IF image_info.hasSource THEN image_info.source ELSE "",
     isDefaultImage |-> image_info.isDefaultImage,
     thumbnailFile |-> IF image_info.hasThumbnailFile THEN image_info.thumbnailFile
                       ELSE << >>]

\* The for loop of get_image_attribution: the first record that matches.
FirstMatch(images, filename) ==
    IF \E k \in 1..Len(images) : images[k].originalFile = filename
    THEN LET k == CHOOSE i \in 1..Len(images) :
                      /\ images[i].originalFile = filename
                      /\ \A j \in 1..(i - 1) : images[j].originalFile /= filename
         IN AttributionOf(images[k])
    ELSE NoAttribution

\* get_image_attribution(filename, metadata); metadata["images"] of a list is
\* a TypeError.
get_image_attribution(filename, metadata) ==
    IF ~Truthy(metadata) THEN Returns(NoAttribution)
    ELSE LET has == HasKey(metadata, "images")
         IN IF has.raised THEN Raises(NoAttribution)
            ELSE IF ~has.value THEN Returns(NoAttribution)
            ELSE IF metadata.t /= "dict" THEN Raises(NoAttribution)
            ELSE Returns(FirstMatch(metadata.images, filename))

(***************************************************************************)
(* list_directory_contents                                                 *)
(***************************************************************************)

\* An entry of a directory: its name, and whether it is a regular file.
Item(name, is_file) == [name |-> name, is_file |-> is_file]

\* The least name of a non-empty set, by code point.
LeastName(S) == CHOOSE x \in S : \A y \in S : x = y \/ StrLess(x.name, y.name)

RECURSIVE Ascending(_)
Ascending(S) ==
    IF S = {} THEN << >>
    ELSE LET x == LeastName(S) IN << x >> \o Ascending(S \ {x})

Reversed(seq) == [i \in 1..Len(seq) |-> seq[Len(seq) + 1 - i]]

\* The order in which iterdir and scandir hand out the entries is the file
\* system's: ascending or descending by name here.
Enumerate(S, order) ==
    IF order = "asc" THEN Ascending(S) ELSE Reversed(Ascending(S))

\* sorted(items, key=lambda x: x.name.lower()): a stable sort, by insertion.
RECURSIVE InsertByLowerName(_, _)
InsertByLowerName(sorted, x) ==
    IF sorted = << >> THEN << x >>
    ELSE IF StrLess(Lower(x.name), Lower(sorted[1].name)) THEN << x >> \o sorted
    ELSE << sorted[1] >> \o InsertByLowerName(Tail(sorted), x)

RECURSIVE SortedByLowerName(_)
SortedByLowerName(items) ==
    IF items = << >> THEN << >>
    ELSE InsertByLowerName(SortedByLowerName(SubSeq(items, 1, Len(items) - 1)),
                           items[Len(items)])

\* The items the loop of list_directory_contents keeps.
Listed(dir_str, item, ignore_patterns, blacklist) ==
    /\ item.name \notin {MANIFEST_JSON, BLACKLIST_JSON, DOT_GIT}
    /\ ~should_ignore(dir_str \o << "/" >> \o item.name, item.name, ignore_patterns)
    /\ ~is_blacklisted(item.name, blacklist)

\* list_directory_contents(dir_path, ignore_patterns, blacklist), from the
\* entries in the order iterdir gave them.
list_directory_contents(dir_str, entries, ignore_patterns, blacklist) ==
    SortedByLowerName(
        SelectSeq(entries, LAMBDA item : Listed(dir_str, item, ignore_patterns, blacklist)))

(***************************************************************************)
(* generate_manifest                                                       *)
(***************************************************************************)

Url(scientific_name, filename) ==
    SPECIES_IMAGES \o << "/" >> \o scientific_name \o << "/" >> \o filename

\* image_data of one item: previewUrl is a key of the dict only when the
\* thumbnail file is a non-empty string.
ImageData(scientific_name, filename, attribution_info) ==
    [largeUrl |-> Url(scientific_name, filename),
     attribution |-> attribution_info.attribution,
     source |-> attribution_info.source,
     hasPreviewUrl |-> attribution_info.thumbnailFile /= << >>,
     previewUrl |-> IF attribution_info.thumbnailFile /= << >>
                    THEN Url(scientific_name, attribution_info.thumbnailFile)
                    ELSE << >>]

\* Lines 202-203 left out: a thumbnail is taken for an image.
IsImageOrThumbnail(item) ==
    item.is_file /\ Lower(Suffix(item.name)) \in ImageSuffixes

\* The items the loop of generate_manifest builds an entry for.
IsImage(item) ==
    /\ item.is_file
    /\ Lower(Suffix(item.name)) \in ImageSuffixes
    /\ ~Contains(item.name, THUMB)

\* images.sort(key=lambda x: x["largeUrl"]): a stable sort, by insertion.
RECURSIVE InsertByLargeUrl(_, _)
InsertByLargeUrl(sorted, x) ==
    IF sorted = << >> THEN << x >>
    ELSE IF StrLess(x.largeUrl, sorted[1].largeUrl) THEN << x >> \o sorted
    ELSE << sorted[1] >> \o InsertByLargeUrl(Tail(sorted), x)

RECURSIVE SortFromLeft(_)
SortFromLeft(images) ==
    IF images = << >> THEN << >>
    ELSE InsertByLargeUrl(SortFromLeft(SubSeq(images, 1, Len(images) - 1)),
                          images[Len(images)])

\* Line 227 left out: the images stay in the order of the listing.
Unsorted(images) == images

SortedByLargeUrl(images) == SortFromLeft(images)

(***************************************************************************)
(* The state: the repository the script runs in, and main()'s position     *)
(***************************************************************************)

VARIABLES
    repo,         \* [in_git, root, ignore_lines]: the git answer, str(repo_root)
                  \* and the lines of .manifest-ignore (none when it is missing)
    fs,           \* directory under species-images (its path below it, a
                  \* sequence of names) -> [files, blacklist, metadata, writable]
    order,        \* the order in which the file system enumerates entries
    disk,         \* directory -> the JSON documents its manifest.json holds
    pc,           \* "start", "walk", "generate" or "exited"
    walk_stack,   \* os.walk: the directories still to be yielded
    visited,      \* the directories os.walk has yielded in this run
    directories,  \* main's list
    idx,          \* the index in directories of the next generate_manifest
    writes,       \* the manifests this run wrote: <<[dir, manifest], ...>>
    exit_code,    \* None while running, then the exit code
    reported,     \* None, or the count main printed
    run,          \* the number of this run
    previous,     \* disk as the run before left it
    query,        \* is_blacklisted alone: the names asked about
    answer        \* is_blacklisted alone: what it returned

vars ==
    << repo, fs, order, disk, pc, walk_stack, visited, directories, idx, writes,
       exit_code, reported, run, previous, query, answer >>

inputs == << repo, fs, order >>

Root == << >>

\* str(dir_path)
RECURSIVE Joined(_)
Joined(d) ==
    IF d = << >> THEN << >> ELSE Joined(SubSeq(d, 1, Len(d) - 1)) \o << "/" >> \o d[Len(d)]

PathStr(d) == repo.root \o << "/" >> \o SPECIES_IMAGES \o Joined(d)

\* dir_path.name
DirName(d) == IF d = << >> THEN SPECIES_IMAGES ELSE d[Len(d)]

Children(d) == {c \in DOMAIN fs : Len(c) = Len(d) + 1 /\ SubSeq(c, 1, Len(d)) = d}

\* load_ignore_patterns(repo_root)
load_ignore_patterns == [k \in 1..Len(repo.ignore_lines) |-> Strip(repo.ignore_lines[k])]

\* What iterdir finds in a directory.
Entries(d) ==
    {Item(f, TRUE) : f \in fs[d].files}
    \cup {Item(DirName(c), FALSE) : c \in Children(d)}
    \cup (IF fs[d].blacklist.st /= "missing" THEN {Item(BLACKLIST_JSON, TRUE)} ELSE {})
    \cup (IF fs[d].metadata.st /= "missing" THEN {Item(METADATA_JSON, TRUE)} ELSE {})
    \cup (IF disk[d] /= None THEN {Item(MANIFEST_JSON, TRUE)} ELSE {})

\* Line 175 testing the directory's name instead of its whole path.
SkipsGitName(dir_str) == PathName(dir_str) = DOT_GIT

\* Line 175: the directories generate_manifest leaves without a manifest.
SkipsGit(dir_str) == Contains(dir_str, DOT_GIT)

\* Lines 189-193: default_image_filename. "defaultImage" in metadata is a
\* TypeError for a number, metadata["defaultImage"] for a list.
DefaultImageFilename(metadata) ==
    IF ~Truthy(metadata) THEN Returns(None)
    ELSE LET has == HasKey(metadata, "defaultImage")
         IN IF has.raised THEN Raises(None)
            ELSE IF ~has.value THEN Returns(None)
            ELSE IF metadata.t /= "dict" THEN Raises(None)
            ELSE Returns(Some(metadata.defaultImage))

\* Line 223 left out: the default image is appended like the others.
AppendsAlways(name, default_image_filename) == TRUE

\* Lines 221-224: whether the entry of an item goes to the images list.
AppendsToImages(name, default_image_filename) == Some(name) /= default_image_filename

\* Line 236 opening the file with "a" instead of "w".
WriteAppending(old, manifest) == old \o << manifest >>

\* Lines 236-237: the file after open(manifest_file, "w") and json.dump.
WriteFile(old, manifest) == << manifest >>

\* generate_manifest(dir_path, ignore_patterns, repo_root):
\* [raised, wrote, manifest].
generate_manifest(d, ignore_patterns) ==
    LET dir_str == PathStr(d)
        nothing == [defaultImage |-> None, images |-> << >>]
        Raised == [raised |-> TRUE, wrote |-> FALSE, manifest |-> nothing]
        blacklist == load_blacklist(fs[d].blacklist)
        metadata == load_metadata(fs[d].metadata)
        default_image_filename == DefaultImageFilename(metadata.value)
        items == list_directory_contents(dir_str, Enumerate(Entries(d), order),
                                         ignore_patterns, blacklist.value)
        shown == SelectSeq(items, IsImage)
        infos == [k \in 1..Len(shown) |->
                     get_image_attribution(shown[k].name, metadata.value)]
        datas == [k \in 1..Len(shown) |->
                     ImageData(DirName(d), shown[k].name, infos[k].value)]
        isDefault(k) == Some(shown[k].name) = default_image_filename.value
        defaults == {k \in 1..Len(shown) : isDefault(k)}
        default_image_data ==
            IF defaults = {} THEN None
            ELSE Some(datas[CHOOSE k \in defaults : \A j \in defaults : j <= k])
        kept == {k \in 1..Len(shown) :
                    AppendsToImages(shown[k].name, default_image_filename.value)}
        images == SelectSeq(datas, LAMBDA e :
                     \E k \in kept : datas[k] = e)
    IN IF SkipsGit(dir_str)
       THEN [raised |-> FALSE, wrote |-> FALSE, manifest |-> nothing]
       ELSE IF blacklist.raised \/ metadata.raised THEN Raised
       ELSE IF default_image_filename.raised THEN Raised
       ELSE IF \E k \in 1..Len(shown) : infos[k].raised THEN Raised
       ELSE IF ~fs[d].writable THEN Raised
       ELSE [raised |-> FALSE, wrote |-> TRUE,
             manifest |-> [defaultImage |-> default_image_data,
                           images |-> SortedByLargeUrl(images)]]

(***************************************************************************)
(* main()                                                                  *)
(***************************************************************************)

Exit(code) ==
    /\ pc' = "exited"
    /\ exit_code' = Some(code)

\* Lines 244-253: get_git_root raises RuntimeError outside a repository, which
\* the handler of line 273 turns into exit code 1; a missing species-images
\* directory is sys.exit(1). Otherwise os.walk starts at species-images.
Start ==
    /\ pc = "start"
    /\ IF ~repo.in_git \/ Root \notin DOMAIN fs
       THEN Exit(1) /\ walk_stack' = << >>
       ELSE pc' = "walk" /\ walk_stack' = << Root >> /\ UNCHANGED exit_code
    /\ UNCHANGED << inputs, disk, visited, directories, idx, writes, reported,
                    run, previous, query, answer >>

\* Line 264: whether the directory os.walk yielded joins the list.
Joins(dir_str, name, ignore_patterns) == ~should_ignore(dir_str, name, ignore_patterns)

\* Lines 257-265: one turn of the os.walk loop. os.walk yields the top of its
\* stack with its subdirectories as scandir gave them, and goes down into
\* those the loop body left in dirs, in that order.
WalkStep ==
    /\ pc = "walk"
    /\ walk_stack /= << >>
    /\ LET top == Head(walk_stack)
           ignore_patterns == load_ignore_patterns
           dirs == Enumerate({Item(DirName(c), FALSE) : c \in Children(top)}, order)
           pruned == SelectSeq(dirs, LAMBDA e :
                        ~should_ignore(PathStr(top) \o << "/" >> \o e.name, e.name,
                                       ignore_patterns))
           below == [k \in 1..Len(pruned) |-> Append(top, pruned[k].name)]
       IN /\ visited' = visited \cup {top}
          /\ directories' =
                IF Joins(PathStr(top), DirName(top), ignore_patterns)
                THEN Append(directories, top) ELSE directories
          /\ walk_stack' = below \o Tail(walk_stack)
          /\ pc' = IF below \o Tail(walk_stack) = << >> THEN "generate" ELSE "walk"
    /\ UNCHANGED << inputs, disk, idx, writes, exit_code, reported, run, previous,
                    query, answer >>

\* The try of line 242 put inside the loop: an exception is passed over.
CarriesOn(raised, k) == [stops |-> FALSE, idx |-> k + 1]

\* Lines 268-275: what an exception of generate_manifest does to the loop:
\* [stops, next index].
AfterCall(raised, k) ==
    IF raised THEN [stops |-> TRUE, idx |-> k] ELSE [stops |-> FALSE, idx |-> k + 1]

\* Lines 268-269: one turn of the loop over directories.
GenerateStep ==
    /\ pc = "generate"
    /\ idx <= Len(directories)
    /\ LET d == directories[idx]
           r == generate_manifest(d, load_ignore_patterns)
           after == AfterCall(r.raised, idx)
       IN /\ IF r.wrote
             THEN /\ disk' = [disk EXCEPT ![d] = WriteFile(disk[d], r.manifest)]
                  /\ writes' = Append(writes, [dir |-> d, manifest |-> r.manifest])
             ELSE UNCHANGED << disk, writes >>
          /\ idx' = after.idx
          /\ IF after.stops THEN Exit(1) ELSE UNCHANGED << pc, exit_code >>
    /\ UNCHANGED << inputs, walk_stack, visited, directories, reported, run,
                    previous, query, answer >>

\* Line 271: the count main prints.
Report(dirs) == Len(dirs)

\* Line 271, and the end of main: exit code 0.
Finish ==
    /\ pc = "generate"
    /\ idx > Len(directories)
    /\ reported' = Some(Report(directories))
    /\ Exit(0)
    /\ UNCHANGED << inputs, disk, walk_stack, visited, directories, idx, writes,
                    run, previous, query, answer >>

(***************************************************************************)
(* Runs of the script, one after the other on the same inputs              *)
(***************************************************************************)

MaxRuns == 2

Rerun ==
    /\ pc = "exited"
    /\ run < MaxRuns
    /\ run' = run + 1
    /\ previous' = disk
    /\ pc' = "start"
    /\ walk_stack' = << >>
    /\ visited' = {}
    /\ directories' = << >>
    /\ idx' = 1
    /\ writes' = << >>
    /\ exit_code' = None
    /\ reported' = None
    /\ UNCHANGED << inputs, disk, query, answer >>

Next == Start \/ WalkStep \/ GenerateStep \/ Finish \/ Rerun

(***************************************************************************)
(* The inputs the runs are checked on                                      *)
(***************************************************************************)

a_jpg == << "a", ".", "j", "p", "g" >>

a_png == << "a", ".", "p", "n", "g" >>

a_thumb_jpg == << "a", "_", "t", "h", "u", "m", "b", ".", "j", "p", "g" >>

B_png == << "B", ".", "p", "n", "g" >>

b_JPG == << "b", ".", "J", "P", "G" >>

c_txt == << "c", ".", "t", "x", "t" >>

Aa == << "A", "a" >>

Bb == << "B", "b" >>

skip == << "s", "k", "i", "p" >>

FileNames == {a_jpg, a_thumb_jpg, B_png, b_JPG, c_txt}

MaxFiles == 2

FileSets == {S \in SUBSET FileNames : Cardinality(S) <= MaxFiles}

Blacklists ==
    { Absent, Broken("badjson"), Broken("badutf8"), Parsed(EmptyDict),
      Parsed(JsonList(<< a_png >>)), Parsed(JsonList(<< a_thumb_jpg >>)),
      Parsed(JsonList(<< B_png >>)) }

\* Records of metadata["images"].
Full(name, attribution, thumbnailFile) ==
    ImageInfo(name, TRUE, attribution, TRUE, "wiki", FALSE, TRUE, thumbnailFile)

Bare(name) == ImageInfo(name, FALSE, EmptyObject, FALSE, "", FALSE, FALSE, << >>)

MetaDict(hasDefault, defaultImage, images) ==
    JsonValue("dict", 0, << >>, hasDefault, defaultImage, TRUE, images)

Metadatas ==
    { Absent, Broken("oserror"), Parsed(JsonInt(5)), Parsed(JsonList(<< "images" >>)),
      Parsed(MetaDict(TRUE, a_jpg, << Full(a_jpg, "{by: ann}", a_thumb_jpg) >>)),
      Parsed(MetaDict(TRUE, B_png, << Bare(b_JPG), Full(B_png, "{by: bob}", << >>) >>)),
      Parsed(MetaDict(FALSE, << >>,
                      << Full(a_jpg, "{by: ann}", a_thumb_jpg), Full(a_jpg, "{by: bob}", << >>),
                         Bare(B_png) >>)),
      Parsed(MetaDict(TRUE, a_thumb_jpg, << Full(b_JPG, "{by: ann}", B_png) >>)) }

IgnoreFiles ==
    { << >>,
      << << "#", " ", "x" >>, << >>, << " ", "*", "_", "t", "h", "u", "m", "b", "*" >> >>,
      << << "b", ".", "*" >> >> }

Orders == {"asc", "desc"}

SlashR == << "/", "r" >>

PlainDir == [files |-> {}, blacklist |-> Absent, metadata |-> Absent, writable |-> TRUE]

NoQuery == [x |-> << >>, e |-> << >>, e2 |-> << >>]

NoAnswer == [asked |-> "none", listed |-> << >>, name |-> << >>, result |-> FALSE]

\* main() has not started.
AtStart ==
    /\ disk = [d \in DOMAIN fs |-> None]
    /\ previous = disk
    /\ pc = "start"
    /\ walk_stack = << >>
    /\ visited = {}
    /\ directories = << >>
    /\ idx = 1
    /\ writes = << >>
    /\ exit_code = None
    /\ reported = None
    /\ run = 1
    /\ query = NoQuery
    /\ answer = NoAnswer

\* One species directory below species-images, with any of the contents.
Init ==
    /\ repo \in [in_git : {TRUE}, root : {SlashR}, ignore_lines : IgnoreFiles]
    /\ \E files \in FileSets, blacklist \in Blacklists, metadata \in Metadatas :
          fs = (Root :> PlainDir) @@
               (<< Aa >> :> [files |-> files, blacklist |-> blacklist,
                             metadata |-> metadata, writable |-> TRUE])
    /\ order \in Orders
    /\ AtStart

Spec == Init /\ [][Next]_vars

(***************************************************************************)
(* Trees of directories, for the walker                                    *)
(***************************************************************************)

SlashUGithub == << "/", "u", ".", "g", "i", "t", "h", "u", "b" >>

DirUniverse == { << Aa >>, << Bb >>, << skip >>, << Aa, skip >> }

MaxDirs == 2

\* The sets of directories that hold the parent of each member.
Trees ==
    {T \in SUBSET DirUniverse :
        /\ Cardinality(T) <= MaxDirs
        /\ \A d \in T : Len(d) > 1 => SubSeq(d, 1, Len(d) - 1) \in T}

OneImage == [files |-> {a_jpg}, blacklist |-> Absent, metadata |-> Absent, writable |-> TRUE]

NumberAsMetadata ==
    [files |-> {a_jpg}, blacklist |-> Absent, metadata |-> Parsed(JsonInt(5)), writable |-> TRUE]

ReadOnly == [files |-> {a_jpg}, blacklist |-> Absent, metadata |-> Absent, writable |-> FALSE]

DirKinds == {OneImage, NumberAsMetadata, ReadOnly}

WalkIgnoreFiles ==
    { << >>,
      << << "s", "k", "i", "p", "/" >> >>,
      << SlashR \o << "/" >> \o SPECIES_IMAGES >>,
      << SPECIES_IMAGES >> }

Repos ==
    {[in_git |-> FALSE, root |-> SlashR, ignore_lines |-> << >>]}
    \cup [in_git : {TRUE}, root : {SlashR, SlashUGithub}, ignore_lines : WalkIgnoreFiles]

\* Any tree below species-images, any directory of it failing or not; or no
\* species-images directory at all.
InitWalk ==
    /\ repo \in Repos
    /\ \/ fs = [d \in {} |-> PlainDir]
       \/ \E T \in Trees : fs \in [T \cup {Root} -> DirKinds]
    /\ order \in Orders
    /\ AtStart

SpecWalk == InitWalk /\ [][Next]_vars

(***************************************************************************)
(* is_blacklisted on its own                                               *)
(***************************************************************************)

Stems == { << "a" >>, << "a", "b" >>, << "a", ".", "b" >>, << "B" >> }

Extensions == { << "j", "p", "g" >>, << "p", "n", "g" >>, << "w", "e", "b", "p" >> }

Others == { << >>, << c_txt >> }

WithExtension(x, e) == x \o << "." >> \o e

\* x.e is blacklisted: is x_thumb.e2 blacklisted?
AskThumbnailOfOriginal ==
    /\ answer.asked = "none"
    /\ \E others \in Others :
        LET listed == WithExtension(query.x, query.e)
            name == WithExtension(query.x \o THUMB, query.e2)
        IN answer' = [asked |-> "thumbnail", listed |-> listed, name |-> name,
                      result |-> is_blacklisted(name, others \o << listed >>)]
    /\ UNCHANGED << inputs, disk, pc, walk_stack, visited, directories, idx, writes,
                    exit_code, reported, run, previous, query >>

\* x_thumb.e is blacklisted: is x.e2 blacklisted?
AskOriginalOfThumbnail ==
    /\ answer.asked = "none"
    /\ \E others \in Others :
        LET listed == WithExtension(query.x \o THUMB, query.e)
            name == WithExtension(query.x, query.e2)
        IN answer' = [asked |-> "original", listed |-> listed, name |-> name,
                      result |-> is_blacklisted(name, others \o << listed >>)]
    /\ UNCHANGED << inputs, disk, pc, walk_stack, visited, directories, idx, writes,
                    exit_code, reported, run, previous, query >>

InitBlacklist ==
    /\ repo = [in_git |-> TRUE, root |-> SlashR, ignore_lines |-> << >>]
    /\ fs = (Root :> PlainDir)
    /\ order = "asc"
    /\ disk = [d \in DOMAIN fs |-> None]
    /\ previous = disk
    /\ pc = "start"
    /\ walk_stack = << >>
    /\ visited = {}
    /\ directories = << >>
    /\ idx = 1
    /\ writes = << >>
    /\ exit_code = None
    /\ reported = None
    /\ run = 1
    /\ query \in [x : Stems, e : Extensions, e2 : Extensions]
    /\ answer = NoAnswer

NextBlacklist == AskThumbnailOfOriginal \/ AskOriginalOfThumbnail

SpecBlacklist == InitBlacklist /\ [][NextBlacklist]_vars

(***************************************************************************)
(* What the claims speak of                                                *)
(***************************************************************************)

Done == pc = "exited"

WrittenDirs == {writes[k].dir : k \in 1..Len(writes)}

\* The entries of a manifest: its defaultImage, if any, and its images.
EntriesOf(manifest) ==
    {manifest.defaultImage[k] : k \in 1..Len(manifest.defaultImage)}
    \cup {manifest.images[k] : k \in 1..Len(manifest.images)}

\* The file names the model's inputs are written with.
AllNames == FileNames \cup {a_png}

\* The blacklist of a directory as blacklist.json states it.
StatedBlacklist(d) ==
    IF fs[d].blacklist.st = "json" /\ fs[d].blacklist.val.t = "list"
    THEN fs[d].blacklist.val.elems ELSE << >>

\* The images records of a directory as metadata.json states them.
StatedImages(d) ==
    IF fs[d].metadata.st = "json" /\ fs[d].metadata.val.t = "dict"
       /\ fs[d].metadata.val.hasImages
    THEN fs[d].metadata.val.images ELSE << >>

\* The first images record for a file, as a list of at most one.
FirstRecord(d, x) ==
    LET images == StatedImages(d)
        at == {k \in 1..Len(images) : images[k].originalFile = x}
    IN IF at = {} THEN << >>
       ELSE << images[CHOOSE k \in at : \A j \in at : k <= j] >>

IgnoredPath(d, name) ==
    should_ignore(PathStr(d) \o << "/" >> \o name, name, load_ignore_patterns)

IgnoredDir(d) == should_ignore(PathStr(d), DirName(d), load_ignore_patterns)

\* d is c or above c.
Above(d, c) == Len(d) <= Len(c) /\ SubSeq(c, 1, Len(d)) = d

(***************************************************************************)
(* C1: no file that is_blacklisted holds for, with the blacklist of the    *)
(* directory, appears in the directory's manifest: not as the file of a    *)
(* largeUrl (of defaultImage or of an images entry) and not as the file of *)
(* a previewUrl.                                                           *)
(* The code does not hold it: previewUrl is built from the thumbnailFile   *)
(* of metadata.json, which is never tested against the blacklist.          *)
(***************************************************************************)
C1_BlacklistedNeverAppears ==
    \A k \in 1..Len(writes) :
        LET d == writes[k].dir
        IN \A f \in AllNames :
              is_blacklisted(f, StatedBlacklist(d)) =>
                 \A e \in EntriesOf(writes[k].manifest) :
                    /\ e.largeUrl /= Url(DirName(d), f)
                    /\ ~(e.hasPreviewUrl /\ e.previewUrl = Url(DirName(d), f))

(***************************************************************************)
(* C2: base name matching works both ways between an original and its      *)
(* thumbnail: with x.e blacklisted, x_thumb.e' is blacklisted, and with    *)
(* x_thumb.e blacklisted, x.e' is blacklisted.                             *)
(* The code does not hold the second half: _thumb is taken out of the name *)
(* asked about, never out of the blacklist's entries.                      *)
(***************************************************************************)
C2_BothDirections == answer.asked /= "none" => answer.result

(***************************************************************************)
(* C3: a file that matches an ignore pattern is the largeUrl of no entry,  *)
(* and below a directory that matches an ignore pattern no directory is    *)
(* visited, nor is a manifest written in it or below it.                   *)
(* The code does not hold it for species-images itself: os.walk starts     *)
(* there whatever the patterns say, and line 260 prunes only those of its  *)
(* subdirectories that match a pattern themselves.                         *)
(***************************************************************************)
C3_IgnoredNeverListedNorDescended ==
    /\ \A k \in 1..Len(writes) :
          \A f \in AllNames :
             IgnoredPath(writes[k].dir, f) =>
                \A e \in EntriesOf(writes[k].manifest) :
                   e.largeUrl /= Url(DirName(writes[k].dir), f)
    /\ \A d \in DOMAIN fs :
          IgnoredDir(d) =>
             \A c \in DOMAIN fs :
                Above(d, c) => c \notin WrittenDirs /\ (c /= d => c \notin visited)

DeclaresDefault(d) ==
    /\ fs[d].metadata.st = "json"
    /\ fs[d].metadata.val.t = "dict"
    /\ fs[d].metadata.val.hasDefault
    /\ FirstRecord(d, fs[d].metadata.val.defaultImage) /= << >>

EntryFor(d, a, record) ==
    LET thumbnail == IF record.hasThumbnailFile THEN record.thumbnailFile ELSE << >>
    IN [largeUrl |-> Url(DirName(d), a),
        attribution |-> IF record.hasAttribution THEN record.attribution ELSE EmptyObject,
        source |-> IF record.hasSource THEN record.source ELSE "",
        hasPreviewUrl |-> thumbnail /= << >>,
        previewUrl |-> IF thumbnail /= << >> THEN Url(DirName(d), thumbnail) ELSE << >>]

Eligible(d, a) ==
    /\ a \in fs[d].files
    /\ Lower(Suffix(a)) \in ImageSuffixes
    /\ ~Contains(a, THUMB)
    /\ ~IgnoredPath(d, a)
    /\ ~is_blacklisted(a, StatedBlacklist(d))

DefaultApart(manifest) ==
    \A k \in 1..Len(manifest.defaultImage), i \in 1..Len(manifest.images) :
        manifest.images[i].largeUrl /= manifest.defaultImage[k].largeUrl

DefaultIsEntryOf(d, a, manifest) ==
    /\ manifest.defaultImage = << EntryFor(d, a, FirstRecord(d, a)[1]) >>
    /\ \A i \in 1..Len(manifest.images) : manifest.images[i].largeUrl /= Url(DirName(d), a)

(***************************************************************************)
(* C5, as amended: in the manifest of a directory whose metadata declares  *)
(* defaultImage = a and has an images record with originalFile = a,        *)
(* defaultImage is the entry of a (largeUrl species-images/<dir>/a, with   *)
(* the attribution, source and previewUrl of the first such record) and a  *)
(* is absent from images, provided a is a file of the directory with an    *)
(* image suffix and no "_thumb" in its name that is neither ignored nor    *)
(* blacklisted; defaultImage is null when a is no such file; and no        *)
(* manifest has its defaultImage among its images.                         *)
(***************************************************************************)
C5_DefaultOfAnEligibleFile ==
    \A k \in 1..Len(writes) :
        LET d == writes[k].dir
            a == fs[d].metadata.val.defaultImage
        IN /\ (DeclaresDefault(d) /\ Eligible(d, a)) => DefaultIsEntryOf(d, a, writes[k].manifest)
           /\ (DeclaresDefault(d) /\ ~Eligible(d, a)) => writes[k].manifest.defaultImage = None
           /\ DefaultApart(writes[k].manifest)

\* C5 as stated: whatever the directory holds.
C5_DeclaredDefaultIsDefault ==
    \A k \in 1..Len(writes) :
        LET d == writes[k].dir
            a == fs[d].metadata.val.defaultImage
        IN /\ DeclaresDefault(d) => DefaultIsEntryOf(d, a, writes[k].manifest)
           /\ DefaultApart(writes[k].manifest)

C5_Witness ==
    \E k \in 1..Len(writes) :
        /\ DeclaresDefault(writes[k].dir)
        /\ writes[k].manifest.defaultImage /= None
        /\ writes[k].manifest.defaultImage[1].hasPreviewUrl
        /\ writes[k].manifest.images /= << >>

(***************************************************************************)
(* C6: in every manifest written, images is in strictly ascending order of *)
(* largeUrl, by code point: sorted, and no largeUrl twice.                 *)
(***************************************************************************)
C6_ImagesSortedNoDuplicates ==
    \A k \in 1..Len(writes) :
        LET images == writes[k].manifest.images
        IN \A i \in 1..(Len(images) - 1) : StrLess(images[i].largeUrl, images[i + 1].largeUrl)

\* Two names that the case-insensitive order of the listing puts the other
\* way round.
C6_Witness ==
    \E k \in 1..Len(writes) :
        LET images == writes[k].manifest.images
        IN /\ Len(images) = 2
           /\ images[1].largeUrl = Url(Aa, B_png)
           /\ images[2].largeUrl = Url(Aa, b_JPG)

(***************************************************************************)
(* C7: in every manifest written, no entry's largeUrl is a file with       *)
(* "_thumb" in its name, and the entry of image x has a previewUrl exactly *)
(* when the first images record of metadata.json with originalFile = x     *)
(* declares a non-empty thumbnailFile; it is then                          *)
(* species-images/<dir>/<thumbnailFile>.                                   *)
(***************************************************************************)
C7_ThumbnailsOnlyAsPreview ==
    \A k \in 1..Len(writes) :
        \A e \in EntriesOf(writes[k].manifest) :
            LET d == writes[k].dir
                x == PathName(e.largeUrl)
                record == FirstRecord(d, x)
                declared == /\ record /= << >>
                            /\ record[1].hasThumbnailFile
                            /\ record[1].thumbnailFile /= << >>
            IN /\ ~Contains(x, THUMB)
               /\ e.largeUrl = Url(DirName(d), x)
               /\ e.hasPreviewUrl <=> declared
               /\ declared => e.previewUrl = Url(DirName(d), record[1].thumbnailFile)

C7_Witness ==
    \E k \in 1..Len(writes) :
        /\ a_thumb_jpg \in fs[writes[k].dir].files
        /\ \E e \in EntriesOf(writes[k].manifest) :
              e.hasPreviewUrl /\ e.previewUrl = Url(Aa, a_thumb_jpg)

(***************************************************************************)
(* C8: a run on the inputs of the run before it leaves every manifest.json *)
(* as that run left it: what a run writes does not depend on the           *)
(* manifest.json already there.                                            *)
(***************************************************************************)
C8_SecondRunChangesNothing == (run >= 2 /\ Done) => disk = previous

C8_Witness ==
    /\ run = 2
    /\ Done
    /\ exit_code = Some(0)
    /\ \E k \in 1..Len(writes) :
          /\ previous[writes[k].dir] /= None
          /\ Len(writes[k].manifest.images) = 2

(***************************************************************************)
(* C9: whatever blacklist.json and metadata.json are (missing, unreadable, *)
(* no JSON, or JSON of another shape than a list resp. an object), no      *)
(* error leaves generate_manifest and the manifest is written: a run fails *)
(* at a directory only when the directory cannot be written to.            *)
(* The code does not hold it: load_metadata returns a number or a list as  *)
(* it is, and only JSONDecodeError and OSError are caught by the loaders.  *)
(***************************************************************************)
C9_LoadersNeverFail ==
    /\ (Done /\ exit_code = Some(1) /\ idx <= Len(directories)) =>
          ~fs[directories[idx]].writable
    /\ \A j \in 1..Len(directories) :
          (j < idx /\ ~Contains(PathStr(directories[j]), DOT_GIT)) =>
             directories[j] \in WrittenDirs

\* The failures the trees of InitWalk hold: a directory that cannot be
\* written to, or one whose metadata.json is a number.
Unexpected(d) ==
    /\ ~Contains(PathStr(d), DOT_GIT)
    /\ \/ ~fs[d].writable
       \/ fs[d].metadata.st = "json" /\ fs[d].metadata.val.t = "int"

(***************************************************************************)
(* C10: a failure of generate_manifest at the k-th directory of main's     *)
(* list ends the run with exit code 1 there: the loop is never past a      *)
(* directory that fails, the manifests written for the k-1 directories     *)
(* before it stay as this run wrote them, and no later directory's         *)
(* manifest is written or changed by this run.                             *)
(***************************************************************************)
C10_FailureEndsRunWithoutRollback ==
    /\ \A j \in 1..Len(directories) : j < idx => ~Unexpected(directories[j])
    /\ (Done /\ exit_code = Some(0)) =>
          \A j \in 1..Len(directories) : ~Unexpected(directories[j])
    /\ (Done /\ exit_code = Some(1) /\ directories /= << >>) =>
          LET before == {directories[j] : j \in 1..(idx - 1)}
              plain == {d \in before : ~Contains(PathStr(d), DOT_GIT)}
          IN /\ idx \in 1..Len(directories)
             /\ Unexpected(directories[idx])
             /\ WrittenDirs = plain
             /\ Len(writes) = Cardinality(plain)
             /\ \A k \in 1..Len(writes) : disk[writes[k].dir] = << writes[k].manifest >>
             /\ \A j \in idx..Len(directories) :
                   disk[directories[j]] = previous[directories[j]]
             /\ reported = None

C10_Witness ==
    /\ Done
    /\ exit_code = Some(1)
    /\ idx = 2
    /\ Len(directories) = 3
    /\ Len(writes) = 1

====
